---------------------------- MODULE Spec2Model ----------------------------
(***************************************************************************)
(* Model of rmcom.py (python-comment-strip): the comment classification    *)
(* predicate and the read / tokenize / filter / untokenize / write         *)
(* pipeline of remove_hash_comments.                                       *)
(*                                                                         *)
(* Text is a sequence of characters and a file a sequence of bytes.  An    *)
(* ASCII character or byte is the one-character string; a byte above 0x7F  *)
(* is written "xHH" and a character above U+007F "U+HH".                   *)
(***************************************************************************)
EXTENDS Integers, Sequences, FiniteSets, TLC

(***************************************************************************)
(* str helpers (Python built-ins used by rmcom.py)                         *)
(***************************************************************************)

\* str.lower() on the letters of the model's alphabet
LowerChar(c) ==
    CASE c = "C" -> "c" [] c = "O" -> "o" [] c = "D" -> "d" [] c = "I" -> "i"
      [] c = "N" -> "n" [] c = "G" -> "g" [] c = "T" -> "t" [] c = "Y" -> "y"
      [] c = "P" -> "p" [] c = "E" -> "e" [] c = "Q" -> "q" [] c = "A" -> "a"
      [] c = "X" -> "x"
      [] OTHER -> c

Lower(s) == [i \in 1..Len(s) |-> LowerChar(s[i])]

\* characters removed by str.strip() / str.rstrip() without arguments
Whitespace == {" ", "\t", "\n", "\r", "\f"}

\* s[a..b] (1-based, inclusive), empty when b < a
Slice(s, a, b) == IF b < a THEN << >> ELSE SubSeq(s, a, b)

\* str.startswith(p)
StartsWith(s, p) == Len(p) <= Len(s) /\ SubSeq(s, 1, Len(p)) = p

\* the test  p in s
Contains(s, p) ==
    \E i \in 1..(Len(s) - Len(p) + 1) : SubSeq(s, i, i + Len(p) - 1) = p

RECURSIVE RStripSet(_, _)
\* str.rstrip(chars)
RStripSet(s, chars) ==
    IF s # << >> /\ s[Len(s)] \in chars
    THEN RStripSet(SubSeq(s, 1, Len(s) - 1), chars)
    ELSE s

RECURSIVE LStripSet(_, _)
LStripSet(s, chars) ==
    IF s # << >> /\ s[1] \in chars THEN LStripSet(Tail(s), chars) ELSE s

\* str.rstrip() and str.strip()
RStrip(s) == RStripSet(s, Whitespace)
Strip(s) == LStripSet(RStripSet(s, Whitespace), Whitespace)

(***************************************************************************)
(* The literals of is_preserved_comment                                    *)
(***************************************************************************)
PatShebang == <<"#", "!">>
PatEmacsCoding == <<"#", " ", "-", "*", "-", " ", "c", "o", "d", "i", "n", "g", ":">>
PatCoding == <<"#", " ", "c", "o", "d", "i", "n", "g", ":">>
PatType == <<"#", " ", "t", "y", "p", "e", ":">>
PatNoqa == <<"#", " ", "n", "o", "q", "a">>

\* is_preserved_comment without the final "# noqa" test
is_preserved_comment_no_noqa(comment) ==
    LET lower_comment == Lower(comment)
    IN  \/ StartsWith(comment, PatShebang)
        \/ Contains(comment, PatEmacsCoding)
        \/ Contains(comment, PatCoding)
        \/ StartsWith(Strip(lower_comment), PatType)

\* is_preserved_comment without the "#!" test
is_preserved_comment_no_shebang(comment) ==
    LET lower_comment == Lower(comment)
    IN  \/ Contains(comment, PatEmacsCoding)
        \/ Contains(comment, PatCoding)
        \/ StartsWith(Strip(lower_comment), PatType)
        \/ Contains(lower_comment, PatNoqa)

\* is_preserved_comment with the "# type:" test on the text as given
is_preserved_comment_type_cased(comment) ==
    LET lower_comment == Lower(comment)
    IN  \/ StartsWith(comment, PatShebang)
        \/ Contains(comment, PatEmacsCoding)
        \/ Contains(comment, PatCoding)
        \/ StartsWith(Strip(comment), PatType)
        \/ Contains(lower_comment, PatNoqa)

is_preserved_comment(comment) ==
    LET lower_comment == Lower(comment)
    IN  \/ StartsWith(comment, PatShebang)
        \/ Contains(comment, PatEmacsCoding)
        \/ Contains(comment, PatCoding)
        \/ StartsWith(Strip(lower_comment), PatType)
        \/ Contains(lower_comment, PatNoqa)


(***************************************************************************)
(* Codecs: bytes.decode(encoding) and the encoding of the text written     *)
(* back.  The model knows the codecs utf-8 and iso-8859-1 (latin-1).       *)
(***************************************************************************)
Utf8 == "utf-8"
Latin1 == "iso-8859-1"

\* bytes above 0x7F that occur in the modelled files
HighBytes == {"xE9", "xC3", "xA9", "xC2", "x83"}

\* the UTF-8 byte sequence of a character
Utf8Bytes(c) ==
    CASE c = "U+E9" -> <<"xC3", "xA9">>
      [] c = "U+C3" -> <<"xC3", "x83">>
      [] c = "U+A9" -> <<"xC2", "xA9">>
      [] OTHER -> <<c>>

\* the character of a two-byte UTF-8 sequence, "" when the sequence is invalid
Utf8Char(b1, b2) ==
    CASE b1 = "xC3" /\ b2 = "xA9" -> "U+E9"
      [] b1 = "xC3" /\ b2 = "x83" -> "U+C3"
      [] b1 = "xC2" /\ b2 = "xA9" -> "U+A9"
      [] OTHER -> ""

\* the latin-1 character of a byte, and back
Latin1Char(b) ==
    CASE b = "xE9" -> "U+E9" [] b = "xC3" -> "U+C3" [] b = "xA9" -> "U+A9"
      [] b = "xC2" -> "U+C2" [] b = "x83" -> "U+83"
      [] OTHER -> b

Latin1Byte(c) ==
    CASE c = "U+E9" -> "xE9" [] c = "U+C3" -> "xC3" [] c = "U+A9" -> "xA9"
      [] c = "U+C2" -> "xC2" [] c = "U+83" -> "x83"
      [] OTHER -> c

RECURSIVE Utf8Valid(_)
\* whether bytes.decode("utf-8") succeeds (it raises UnicodeDecodeError otherwise)
Utf8Valid(b) ==
    IF b = << >> THEN TRUE
    ELSE IF b[1] \notin HighBytes THEN Utf8Valid(Tail(b))
    ELSE /\ Len(b) >= 2
         /\ Utf8Char(b[1], b[2]) # ""
         /\ Utf8Valid(SubSeq(b, 3, Len(b)))

RECURSIVE DecodeUtf8(_)
\* bytes.decode("utf-8") of valid UTF-8
DecodeUtf8(b) ==
    IF b = << >> THEN << >>
    ELSE IF b[1] \notin HighBytes THEN <<b[1]>> \o DecodeUtf8(Tail(b))
    ELSE <<Utf8Char(b[1], b[2])>> \o DecodeUtf8(SubSeq(b, 3, Len(b)))

\* whether bytes.decode(encoding) succeeds
Decodable(b, encoding) == encoding = Latin1 \/ Utf8Valid(b)

\* bytes.decode(encoding)
Decode(b, encoding) ==
    IF encoding = Latin1 THEN [i \in 1..Len(b) |-> Latin1Char(b[i])]
    ELSE DecodeUtf8(b)

RECURSIVE EncodeUtf8(_)
EncodeUtf8(t) ==
    IF t = << >> THEN << >> ELSE Utf8Bytes(t[1]) \o EncodeUtf8(Tail(t))

\* the bytes a text file opened with encoding=encoding, newline='' receives
Encode(t, encoding) ==
    IF encoding = Latin1 THEN [i \in 1..Len(t) |-> Latin1Byte(t[i])]
    ELSE EncodeUtf8(t)

(***************************************************************************)
(* Lines: readline() and str.splitlines()                                  *)
(***************************************************************************)
RECURSIVE ReadLines(_)
\* the successive results of readline(): each line keeps its terminator
ReadLines(s) ==
    IF s = << >> THEN << >>
    ELSE LET nl == IF \E i \in 1..Len(s) : s[i] = "\n"
                   THEN CHOOSE i \in 1..Len(s) :
                            s[i] = "\n" /\ \A j \in 1..(i - 1) : s[j] # "\n"
                   ELSE Len(s)
         IN  <<SubSeq(s, 1, nl)>> \o ReadLines(SubSeq(s, nl + 1, Len(s)))

\* a line without its terminator ("\n" or "\r\n")
ChopTerminator(line) ==
    LET n == Len(line)
    IN  IF n >= 2 /\ line[n - 1] = "\r" /\ line[n] = "\n" THEN SubSeq(line, 1, n - 2)
        ELSE IF n >= 1 /\ line[n] = "\n" THEN SubSeq(line, 1, n - 1)
        ELSE line

\* str.splitlines(): the lines without their terminators
SplitLines(s) ==
    LET lines == ReadLines(s)
    IN  [i \in 1..Len(lines) |-> ChopTerminator(lines[i])]

RECURSIVE JoinLines(_)
\* "\n".join(lines)
JoinLines(lines) ==
    IF lines = << >> THEN << >>
    ELSE IF Len(lines) = 1 THEN lines[1]
    ELSE lines[1] \o <<"\n">> \o JoinLines(Tail(lines))

RECURSIVE DropBlankTail(_)
DropBlankTail(lines) ==
    IF lines # << >> /\ lines[Len(lines)] = << >>
    THEN DropBlankTail(SubSeq(lines, 1, Len(lines) - 1))
    ELSE lines

\* the normalisation that also drops the empty lines at the end of the text
Normalize_one_trailing_newline(text) ==
    LET lines == SplitLines(text)
    IN  JoinLines(DropBlankTail([i \in 1..Len(lines) |-> RStrip(lines[i])])) \o <<"\n">>

\* the normalisation without the rstrip of each line
Normalize_without_rstrip(text) == JoinLines(SplitLines(text)) \o <<"\n">>

\* the normalisation without the newline added at the end
Normalize_without_final_newline(text) ==
    LET lines == SplitLines(text)
    IN  JoinLines([i \in 1..Len(lines) |-> RStrip(lines[i])])

\* '\n'.join(line.rstrip() for line in text.splitlines()) + '\n'
Normalize(text) ==
    LET lines == SplitLines(text)
    IN  JoinLines([i \in 1..Len(lines) |-> RStrip(lines[i])]) \o <<"\n">>

(***************************************************************************)
(* tokenize.detect_encoding (called at rmcom.py line 82)                   *)
(***************************************************************************)
AsciiLetters ==
    {"a", "c", "d", "e", "f", "g", "i", "l", "n", "o", "p", "q", "s", "t", "u",
     "x", "y", "A", "C", "D", "E", "G", "I", "N", "O", "P", "Q", "T", "X", "Y"}
Digits == {"1", "8"}
\* [-\w.] under re.ASCII
CookieNameChars == AsciiLetters \cup Digits \cup {"_", "-", "."}

RECURSIVE CountLeading(_, _)
\* the length of the longest prefix of s made of characters in chars
CountLeading(s, chars) ==
    IF s # << >> /\ s[1] \in chars THEN 1 + CountLeading(Tail(s), chars) ELSE 0

CookieWord == <<"c", "o", "d", "i", "n", "g">>
NameLatin1 == <<"l", "a", "t", "i", "n", "-", "1">>
NameUtf8 == <<"u", "t", "f", "-", "8">>

\* where the encoding name starts if  coding[:=][ \t]*([-\w.]+)  matches at j, else 0
CookieNameStart(s, j) ==
    IF /\ j + 6 <= Len(s)
       /\ SubSeq(s, j, j + 5) = CookieWord
       /\ s[j + 6] \in {":", "="}
    THEN LET k == j + 7 + CountLeading(Slice(s, j + 7, Len(s)), {" ", "\t"})
         IN  IF k <= Len(s) /\ s[k] \in CookieNameChars THEN k ELSE 0
    ELSE 0

\* group(1) of cookie_re.match(s), << >> when there is no match:
\* ^[ \t\f]*#.*?coding[:=][ \t]*([-\w.]+)
CookieName(s) ==
    LET h == CountLeading(s, {" ", "\t", "\f"}) + 1
        hits == {j \in (h + 1)..Len(s) :
                    /\ CookieNameStart(s, j) # 0
                    /\ \A i \in (h + 1)..(j - 1) : s[i] # "\n"}
    IN  IF h <= Len(s) /\ s[h] = "#" /\ hits # {}
        THEN LET j == CHOOSE x \in hits : \A y \in hits : x <= y
                 k == CookieNameStart(s, j)
             IN  SubSeq(s, k, k + CountLeading(SubSeq(s, k, Len(s)), CookieNameChars) - 1)
        ELSE << >>

\* _get_normal_name followed by codecs.lookup: the codec, "" when lookup fails
LookupCodec(orig_enc) ==
    LET first12 == SubSeq(orig_enc, 1, IF Len(orig_enc) < 12 THEN Len(orig_enc) ELSE 12)
        enc == [i \in 1..Len(first12) |->
                   IF LowerChar(first12[i]) = "_" THEN "-" ELSE LowerChar(first12[i])]
    IN  IF enc = NameUtf8 \/ StartsWith(enc, NameUtf8 \o <<"-">>) THEN Utf8
        ELSE IF enc = NameLatin1 \/ StartsWith(enc, NameLatin1 \o <<"-">>) THEN Latin1
        ELSE ""

\* what find_cookie makes of the name matched in the line
CookieOfCodec(codec) ==
    IF codec = "" THEN [error |-> TRUE, encoding |-> ""]
    ELSE [error |-> FALSE, encoding |-> codec]

CookieOfName(name) ==
    IF name = << >> THEN [error |-> FALSE, encoding |-> ""]
    ELSE CookieOfCodec(LookupCodec(name))

\* find_cookie(line): [error |-> a SyntaxError is raised, encoding |-> the
\* encoding found, "" for None]
find_cookie(line) ==
    IF ~Utf8Valid(line) THEN [error |-> TRUE, encoding |-> ""]
    ELSE CookieOfName(CookieName(DecodeUtf8(line)))

\* blank_re.match(line): ^[ \t\f]*(?:[#\r\n]|$)
BlankLine(line) ==
    LET h == CountLeading(line, {" ", "\t", "\f"}) + 1
    IN  h > Len(line) \/ line[h] \in {"#", "\r", "\n"}

\* the default of detect_encoding
DefaultEncoding == [error |-> FALSE, encoding |-> Utf8]

\* "if encoding: return encoding" (or raise) after find_cookie, else go on
CookieOr(cookie, otherwise) ==
    IF cookie.error \/ cookie.encoding # "" THEN cookie ELSE otherwise

\* detect_encoding on the lines that readline yields
DetectInLines(lines) ==
    IF lines = << >> THEN DefaultEncoding
    ELSE CookieOr(find_cookie(lines[1]),
                  IF ~BlankLine(lines[1]) \/ Len(lines) < 2
                  THEN DefaultEncoding
                  ELSE CookieOr(find_cookie(lines[2]), DefaultEncoding))

\* detect_encoding(readline) on the file's bytes (no byte-order mark)
detect_encoding(b) == DetectInLines(ReadLines(b))

\* lines 83-88: utf-8 when detection raised
EncodingOrFallback(d) == IF d.error THEN Utf8 ELSE d.encoding

\* lines 81-88: the detected encoding, utf-8 when detection raises
ResolveEncoding(b) == EncodingOrFallback(detect_encoding(b))

(***************************************************************************)
(* tokenize.generate_tokens (called at rmcom.py line 111)                  *)
(* Fragment: statements at column 0 made of names, numbers, one-line       *)
(* strings in single quotes and single-character operators; no brackets,   *)
(* no backslash continuation, no indented blocks.                          *)
(***************************************************************************)
UnicodeLetters == {"U+E9", "U+C3", "U+C2"}
\* \w of the Name pattern
NameChars == AsciiLetters \cup Digits \cup UnicodeLetters \cup {"_"}
OpChars == {"=", ":", "-", "*", "."}

Tok(type, string, row, scol, ecol) ==
    [type |-> type, string |-> string, start |-> <<row, scol>>, end |-> <<row, ecol>>]

\* the index of the first c in s, 0 if there is none
IndexOf(s, c) ==
    IF \E i \in 1..Len(s) : s[i] = c
    THEN CHOOSE i \in 1..Len(s) : s[i] = c /\ \A j \in 1..(i - 1) : s[j] # c
    ELSE 0

RECURSIVE ScanTokens(_, _, _)
\* the loop  while pos < max  of _tokenize over one line, from column pos
ScanTokens(line, lnum, pos) ==
    LET max == Len(line)
        start == pos + CountLeading(Slice(line, pos + 1, max), {" ", "\t", "\f"})
        rest == Slice(line, start + 1, max)
    IN  IF pos >= max \/ start >= max THEN << >>
        ELSE LET initial == rest[1]
             IN  CASE initial \in Digits ->
                          LET n == CountLeading(rest, Digits)
                          IN  <<Tok("NUMBER", SubSeq(rest, 1, n), lnum, start, start + n)>>
                                  \o ScanTokens(line, lnum, start + n)
                   [] initial = "\n" \/ (initial = "\r" /\ Len(rest) >= 2 /\ rest[2] = "\n") ->
                          LET n == IF initial = "\n" THEN 1 ELSE 2
                          IN  <<Tok("NEWLINE", SubSeq(rest, 1, n), lnum, start, start + n)>>
                                  \o ScanTokens(line, lnum, start + n)
                   [] initial = "#" ->
                          LET body == RStripSet(rest, {"\r", "\n"})
                              n == Len(body)
                          IN  <<Tok("COMMENT", body, lnum, start, start + n)>>
                                  \o ScanTokens(line, lnum, start + n)
                   [] initial = "'" /\ IndexOf(Tail(rest), "'") # 0
                            /\ (IndexOf(Tail(rest), "\n") = 0
                                \/ IndexOf(Tail(rest), "'") < IndexOf(Tail(rest), "\n")) ->
                          LET n == IndexOf(Tail(rest), "'") + 1
                          IN  <<Tok("STRING", SubSeq(rest, 1, n), lnum, start, start + n)>>
                                  \o ScanTokens(line, lnum, start + n)
                   [] initial \in NameChars \ Digits ->
                          LET n == CountLeading(rest, NameChars)
                          IN  <<Tok("NAME", SubSeq(rest, 1, n), lnum, start, start + n)>>
                                  \o ScanTokens(line, lnum, start + n)
                   [] initial \in OpChars ->
                          <<Tok("OP", <<initial>>, lnum, start, start + 1)>>
                              \o ScanTokens(line, lnum, start + 1)
                   [] OTHER ->
                          <<Tok("ERRORTOKEN", <<line[pos + 1]>>, lnum, pos, pos + 1)>>
                              \o ScanTokens(line, lnum, pos + 1)

\* whether the line is only blanks and has no terminator (the  pos == max  break)
OnlyBlanks(line) == CountLeading(line, {" ", "\t", "\f"}) = Len(line)

\* the tokens of one line read at the start of a statement
LineTokens(line, lnum) ==
    LET pos == CountLeading(line, {" ", "\t", "\f"})
    IN  IF line[pos + 1] = "#"
        THEN LET comment_token == RStripSet(Slice(line, pos + 1, Len(line)), {"\r", "\n"})
                 after == pos + Len(comment_token)
             IN  << Tok("COMMENT", comment_token, lnum, pos, after),
                    Tok("NL", Slice(line, after + 1, Len(line)), lnum, after, Len(line)) >>
        ELSE IF line[pos + 1] \in {"\r", "\n"}
        THEN << Tok("NL", Slice(line, pos + 1, Len(line)), lnum, pos, Len(line)) >>
        ELSE ScanTokens(line, lnum, pos)

RECURSIVE TokensOfLines(_, _, _)
TokensOfLines(lines, i, n) ==
    IF i > n THEN << >>
    ELSE LineTokens(lines[i], i) \o TokensOfLines(lines, i + 1, n)

\* list(tokenize.generate_tokens(f_text.readline)) on the decoded text
generate_tokens(text) ==
    LET lines == ReadLines(text)
        n == Len(lines)
        broke == n > 0 /\ OnlyBlanks(lines[n])
        nbody == IF broke THEN n - 1 ELSE n
        lnum == IF broke THEN n ELSE n + 1
        last_line == IF nbody >= 1 THEN lines[nbody] ELSE << >>
        implicit ==
            IF /\ last_line # << >>
               /\ last_line[Len(last_line)] \notin {"\r", "\n"}
               /\ ~StartsWith(Strip(last_line), <<"#">>)
            THEN <<Tok("NEWLINE", << >>, lnum - 1, Len(last_line), Len(last_line) + 1)>>
            ELSE << >>
    IN  TokensOfLines(lines, 1, nbody) \o implicit \o <<Tok("ENDMARKER", << >>, lnum, 0, 0)>>

(***************************************************************************)
(* compile(original_content, file_path, 'exec') (rmcom.py line 102)        *)
(***************************************************************************)
TypesOf(toks) == [i \in 1..Len(toks) |-> toks[i].type]

\* whether the code tokens of a line form a simple statement of the fragment:
\* an expression, or  NAME = expression
StatementOK(toks) ==
    LET code == SelectSeq(toks, LAMBDA t : t.type \notin {"COMMENT", "NEWLINE", "NL"})
        operand(t) == t.type \in {"NAME", "NUMBER", "STRING"}
    IN  \/ Len(code) = 1 /\ operand(code[1])
        \/ /\ Len(code) = 3
           /\ code[1].type = "NAME"
           /\ code[2].type = "OP" /\ code[2].string = <<"=">>
           /\ operand(code[3])

\* whether compile() accepts the text (it raises SyntaxError otherwise): every
\* line is blank, a comment, or a statement of the fragment that starts at column 0
SyntaxOK(text) ==
    LET lines == ReadLines(text)
    IN  \A i \in 1..Len(lines) :
            \/ OnlyBlanks(lines[i])
            \/ BlankLine(lines[i])
            \/ /\ CountLeading(lines[i], {" ", "\t", "\f"}) = 0
               /\ StatementOK(ScanTokens(lines[i], i, 0))

(***************************************************************************)
(* remove_hash_comments: the filter loop (lines 123-140)                   *)
(***************************************************************************)
CommentRemovalInfo(path, line, text) ==
    [file_path |-> path, line_number |-> line, comment_text |-> text]

\* the record with the line counted from 0
removed_of_token_zero_indexed(file_path, token) ==
    <<CommentRemovalInfo(file_path, token.start[1] - 1, RStripSet(token.string, {"\n"}))>>

\* the record appended for a dropped comment token (lines 133-137)
removed_of_token(file_path, token) ==
    <<CommentRemovalInfo(file_path, token.start[1], RStripSet(token.string, {"\n"}))>>

RECURSIVE FilterLoop_drops_every_comment(_, _, _, _, _)
\* the loop without the test of is_preserved_comment at line 129
FilterLoop_drops_every_comment(tokens, i, file_path, kept, removed) ==
    IF i > Len(tokens) THEN [kept_tokens |-> kept, removed_comments_info |-> removed]
    ELSE LET token == tokens[i]
         IN  IF token.type = "COMMENT"
             THEN FilterLoop_drops_every_comment(tokens, i + 1, file_path, kept,
                                                 removed \o removed_of_token(file_path, token))
             ELSE IF token.type # "ENCODING"
                  THEN FilterLoop_drops_every_comment(tokens, i + 1, file_path,
                                                      Append(kept, token), removed)
                  ELSE FilterLoop_drops_every_comment(tokens, i + 1, file_path, kept, removed)

RECURSIVE FilterLoop(_, _, _, _, _)
\* for token in tokens: ... ; the result is kept_tokens and removed_comments_info
FilterLoop(tokens, i, file_path, kept, removed) ==
    IF i > Len(tokens) THEN [kept_tokens |-> kept, removed_comments_info |-> removed]
    ELSE LET token == tokens[i]
         IN  IF token.type = "COMMENT"
             THEN IF is_preserved_comment(token.string)
                  THEN FilterLoop(tokens, i + 1, file_path, Append(kept, token), removed)
                  ELSE FilterLoop(tokens, i + 1, file_path, kept,
                                  removed \o removed_of_token(file_path, token))
             ELSE IF token.type # "ENCODING"
                  THEN FilterLoop(tokens, i + 1, file_path, Append(kept, token), removed)
                  ELSE FilterLoop(tokens, i + 1, file_path, kept, removed)

(***************************************************************************)
(* tokenize.untokenize (called at rmcom.py line 150), full-tuple mode.     *)
(* INDENT and DEDENT tokens do not occur in the fragment.                  *)
(***************************************************************************)
RECURSIVE Repeat(_, _)
Repeat(s, n) == IF n <= 0 THEN << >> ELSE s \o Repeat(s, n - 1)

RECURSIVE UntokenizeLoop(_, _, _, _, _)
\* Untokenizer.untokenize: [error |-> add_whitespace raised ValueError, text |-> ...]
UntokenizeLoop(toks, i, prev_row, prev_col, out) ==
    IF i > Len(toks) THEN [error |-> FALSE, text |-> out]
    ELSE LET t == toks[i]
             row == t.start[1]
             col == t.start[2]
         IN  IF t.type = "ENCODING" THEN UntokenizeLoop(toks, i + 1, prev_row, prev_col, out)
             ELSE IF t.type = "ENDMARKER" THEN [error |-> FALSE, text |-> out]
             ELSE IF row < prev_row \/ (row = prev_row /\ col < prev_col)
                  THEN [error |-> TRUE, text |-> << >>]
             ELSE LET row_offset == row - prev_row
                      from_col == IF row_offset # 0 THEN 0 ELSE prev_col
                      out2 == out \o Repeat(<<"\\", "\n">>, row_offset)
                                  \o Repeat(<<" ">>, col - from_col) \o t.string
                  IN  IF t.type \in {"NEWLINE", "NL"}
                      THEN UntokenizeLoop(toks, i + 1, t.end[1] + 1, 0, out2)
                      ELSE UntokenizeLoop(toks, i + 1, t.end[1], t.end[2], out2)

untokenize(toks) == UntokenizeLoop(toks, 1, 1, 0, << >>)

(***************************************************************************)
(* The files given to remove_hash_comments                                 *)
(***************************************************************************)
MaxLines == 2
\* the number of calls made on the file, as in test_remove_comments_idempotency
Runs == 2
\* the number of calls that the environment makes fail (an I/O error, or a
\* fault inside the tokenize module)
MaxFaults == 1

Paths == {"a.py", "b.py"}

\* the lines a file is made of, as bytes without terminator
LineTemplates ==
    { << >>,                                                      \* blank line
      <<"x">>,                                                    \* code
      <<"x", " ", "x">>,                                          \* not a statement
      <<"x", " ", "#", " ", "c">>,                                \* code and comment
      <<" ", "#", " ", "c", " ">>,                                \* comment-only line
      <<"#", " ", "c">>,                                          \* the same at column 0
      <<"#", "!", "s">>,                                          \* shebang
      <<"x", " ", "#", " ", "n", "o", "q", "a">>,                 \* lint directive
      <<"#", " ", "c", "o", "d", "i", "n", "g", ":", " ",
        "l", "a", "t", "i", "n", "-", "1">>,                      \* declaration
      <<"#", " ", "c", "o", "d", "i", "n", "g", "=",
        "l", "a", "t", "i", "n", "-", "1">>,                      \* declaration, = form
      <<"x", " ", "=", " ", "'", "xE9", "'">>,                    \* latin-1 e-acute
      <<"x", " ", "=", " ", "'", "xC3", "xA9", "'", " ", "#", " ", "c">> \* utf-8 e-acute
    }

LF == <<"\n">>
CRLF == <<"\r", "\n">>

RECURSIVE JoinWith(_, _)
JoinWith(lines, eol) ==
    IF lines = << >> THEN << >>
    ELSE IF Len(lines) = 1 THEN lines[1]
    ELSE lines[1] \o eol \o JoinWith(Tail(lines), eol)

\* how a file ends its lines: <<terminator, whether the last line has one>>
Endings == { <<LF, TRUE>>, <<LF, FALSE>>, <<CRLF, TRUE>> }

\* the files of at most MaxLines lines
Files ==
    { JoinWith(ls, e[1]) \o (IF e[2] THEN e[1] ELSE << >>) :
        ls \in UNION {[1..n -> LineTemplates] : n \in 0..MaxLines},
        e \in Endings }

(***************************************************************************)
(* remove_hash_comments as a state machine                                 *)
(***************************************************************************)
VARIABLES
    file_path,              \* the path given to remove_hash_comments
    disk,                   \* the bytes of the file at file_path
    pc,                     \* where the current call stands
    encoding,               \* locals of the current call
    original_content,
    tokens,
    kept_tokens,
    removed_comments_info,
    cleaned_code,
    opens,                  \* the modes the current call has opened the file in
    before,                 \* the bytes of the file when the current call began
    calls,                  \* one record per finished call
    comment,                \* the text given to is_preserved_comment
    keyword,                \* the keyword whose letter case is changed
    preserved,              \* the results of is_preserved_comment
    argv,                   \* the arguments of main: --file or --dir, and --log
    fs,                     \* the source tree: path -> bytes of the file
    log,                    \* the file at the log path
    log_dir,                \* whether the directory of the log path exists
    main_pc,                \* where main stands
    walk,                   \* os.walk: the directories still to list
    pending,                \* the file names of the current directory not yet seen
    all_removed_comments_info,  \* locals of process_directory
    processed_files_count,
    failed_files_count,
    all_removed_data,       \* locals of main
    processing_failed,
    output_successful,
    history,                 \* the calls made and the final message, in order
    open_files,             \* the handles on source files that are open, in opening order
    handle_pc,              \* where the call that holds them stands
    queue,                  \* the candidate files still to be processed
    current,                \* the path of the call in progress
    returned                \* what each finished call returned

vars == <<file_path, disk, pc, encoding, original_content, tokens, kept_tokens,
          removed_comments_info, cleaned_code, opens, before, calls,
          comment, keyword, preserved,
          argv, fs, log, log_dir, main_pc, walk, pending, all_removed_comments_info,
          processed_files_count, failed_files_count, all_removed_data,
          processing_failed, output_successful, history,
          open_files, handle_pc, queue, current, returned>>

handleVars == <<open_files, handle_pc, queue, current, returned>>

mainVars == <<argv, fs, log, log_dir, main_pc, walk, pending, all_removed_comments_info,
              processed_files_count, failed_files_count, all_removed_data,
              processing_failed, output_successful, history>>

predVars == <<comment, keyword, preserved>>
fileVars == <<file_path, disk, pc, encoding, original_content, tokens, kept_tokens,
              removed_comments_info, cleaned_code, opens, before, calls>>

\* the return values: None, or a list of CommentRemovalInfo
None == [is_none |-> TRUE, records |-> << >>]
List(records) == [is_none |-> FALSE, records |-> records]

InitFile ==
    /\ file_path \in Paths
    /\ disk \in Files
    /\ pc = "idle"
    /\ encoding = Utf8
    /\ original_content = << >>
    /\ tokens = << >>
    /\ kept_tokens = << >>
    /\ removed_comments_info = << >>
    /\ cleaned_code = << >>
    /\ opens = << >>
    /\ before = << >>
    /\ calls = << >>

InitPredIdle ==
    /\ comment = << >>
    /\ keyword = << >>
    /\ preserved = << >>

\* the file at a path that does not exist
Absent == <<"(absent)">>

InitMainIdle ==
    /\ argv = << >>
    /\ fs = << >>
    /\ log = Absent
    /\ log_dir = TRUE
    /\ main_pc = "idle"
    /\ walk = << >>
    /\ pending = {}
    /\ all_removed_comments_info = << >>
    /\ processed_files_count = 0
    /\ failed_files_count = 0
    /\ all_removed_data = << >>
    /\ processing_failed = FALSE
    /\ output_successful = FALSE
    /\ history = << >>

InitHandlesIdle ==
    /\ open_files = << >>
    /\ handle_pc = "idle"
    /\ queue = << >>
    /\ current = << >>
    /\ returned = << >>

InitFileIdle ==
    /\ file_path = "a.py"
    /\ disk = << >>
    /\ pc = "idle"
    /\ encoding = Utf8
    /\ original_content = << >>
    /\ tokens = << >>
    /\ kept_tokens = << >>
    /\ removed_comments_info = << >>
    /\ cleaned_code = << >>
    /\ opens = << >>
    /\ before = << >>
    /\ calls = << >>

Init == InitFile /\ InitPredIdle /\ InitMainIdle /\ InitHandlesIdle

\* the call returns ret: its record is appended and the locals are dropped
Return(ret, fault, new_disk, new_opens) ==
    /\ calls' = Append(calls,
                       [file_path |-> file_path,
                        before |-> IF pc = "idle" THEN disk ELSE before,
                        after |-> new_disk,
                        ret |-> ret,
                        opens |-> new_opens,
                        fault |-> fault,
                        stage |-> pc,
                        encoding |-> encoding,
                        tokens |-> tokens,
                        cleaned_code |-> cleaned_code])
    /\ disk' = new_disk
    /\ pc' = "idle"
    /\ encoding' = Utf8
    /\ original_content' = << >>
    /\ tokens' = << >>
    /\ kept_tokens' = << >>
    /\ removed_comments_info' = << >>
    /\ cleaned_code' = << >>
    /\ opens' = << >>
    /\ before' = << >>
    /\ UNCHANGED file_path

CanCall == pc = "idle" /\ Len(calls) < Runs

\* whether the environment may make the current call fail
CanFail == Cardinality({i \in 1..Len(calls) : calls[i].fault # "none"}) < MaxFaults

\* lines 101-105: the decoded text is compiled
CompileStage(enc, text) ==
    [status |-> IF SyntaxOK(text) THEN "ok" ELSE "SyntaxError",
     encoding |-> enc, text |-> text]

\* lines 93-98: the bytes are decoded with the resolved encoding
DecodeStage(b, enc) ==
    IF ~Decodable(b, enc)
    THEN [status |-> "UnicodeDecodeError", encoding |-> enc, text |-> << >>]
    ELSE CompileStage(enc, Decode(b, enc))

\* lines 78-105: the encoding is resolved, the bytes are decoded and the text
\* is compiled
ReadStage(b) == DecodeStage(b, ResolveEncoding(b))

\* lines 110-111 after a read stage r without an error
Tokenize(r) ==
    /\ r.status = "ok"
    /\ encoding' = r.encoding
    /\ original_content' = r.text
    /\ tokens' = generate_tokens(r.text)

\* lines 78-111 without an error: the file is read, decoded, checked and tokenized
ReadFile ==
    /\ CanCall
    /\ Tokenize(ReadStage(disk))
    /\ opens' = <<"rb">>
    /\ before' = disk
    /\ pc' = "filter"
    /\ UNCHANGED <<file_path, disk, kept_tokens, removed_comments_info, cleaned_code, calls>>
    /\ UNCHANGED <<predVars, mainVars, handleVars>>

\* line 79 raises IOError/OSError: lines 113-115
ReadFileIOError ==
    /\ CanCall
    /\ CanFail
    /\ Return(None, "read", disk, << >>)
    /\ UNCHANGED <<predVars, mainVars, handleVars>>

\* the decode error handled as "nothing to remove"
ReadFileDecodeError_returns_empty_list ==
    /\ CanCall
    /\ ReadStage(disk).status = "UnicodeDecodeError"
    /\ Return(List(<< >>), "none", disk, <<"rb">>)
    /\ UNCHANGED <<predVars, mainVars, handleVars>>

\* line 95 raises UnicodeDecodeError: lines 96-98
ReadFileDecodeError ==
    /\ CanCall
    /\ ReadStage(disk).status = "UnicodeDecodeError"
    /\ Return(None, "none", disk, <<"rb">>)
    /\ UNCHANGED <<predVars, mainVars, handleVars>>

\* line 102 raises SyntaxError: lines 103-105
ReadFileSyntaxError ==
    /\ CanCall
    /\ ReadStage(disk).status = "SyntaxError"
    /\ Return(None, "none", disk, <<"rb">>)
    /\ UNCHANGED <<predVars, mainVars, handleVars>>

\* line 111 raises (TokenError on lexical structure outside the fragment that
\* compile() accepts, or any other exception): lines 116-121
ReadFileTokenError ==
    /\ CanCall
    /\ CanFail
    /\ ReadStage(disk).status = "ok"
    /\ Return(None, "tokenize", disk, <<"rb">>)
    /\ UNCHANGED <<predVars, mainVars, handleVars>>

\* lines 123-145
FilterTokens ==
    /\ pc = "filter"
    /\ LET r == FilterLoop(tokens, 1, file_path, << >>, << >>)
       IN  IF r.removed_comments_info = << >>
           THEN Return(List(<< >>), "none", disk, opens)
           ELSE /\ kept_tokens' = r.kept_tokens
                /\ removed_comments_info' = r.removed_comments_info
                /\ pc' = "untokenize"
                /\ UNCHANGED <<file_path, disk, encoding, original_content, tokens,
                               cleaned_code, opens, before, calls>>
    /\ UNCHANGED <<predVars, mainVars, handleVars>>

\* lines 147-168 with untokenize as computed
Reassemble ==
    /\ pc = "untokenize"
    /\ LET u == untokenize(kept_tokens)
       IN  IF u.error
           THEN Return(List(removed_comments_info), "none", disk, opens)
           ELSE IF Normalize(u.text) = Normalize(original_content)
           THEN Return(List(removed_comments_info), "none", disk, opens)
           ELSE /\ cleaned_code' = Normalize(u.text)
                /\ pc' = "open_w"
                /\ UNCHANGED <<file_path, disk, encoding, original_content, tokens,
                               kept_tokens, removed_comments_info, opens, before, calls>>
    /\ UNCHANGED <<predVars, mainVars, handleVars>>

\* the failure of untokenize handled like a failure of the tokenizer
ReassembleError_returns_none ==
    /\ pc = "untokenize"
    /\ CanFail
    /\ Return(None, "untokenize", disk, opens)
    /\ UNCHANGED <<predVars, mainVars, handleVars>>

\* line 150 raises for a reason of the tool (the fault the tests simulate):
\* lines 163-168
ReassembleError ==
    /\ pc = "untokenize"
    /\ CanFail
    /\ Return(List(removed_comments_info), "untokenize", disk, opens)
    /\ UNCHANGED <<predVars, mainVars, handleVars>>

\* line 172: open(file_path, "w") truncates the file
OpenForWrite ==
    /\ pc = "open_w"
    /\ disk' = << >>
    /\ opens' = Append(opens, "w")
    /\ pc' = "write"
    /\ UNCHANGED <<file_path, encoding, original_content, tokens, kept_tokens,
                   removed_comments_info, cleaned_code, before, calls>>
    /\ UNCHANGED <<predVars, mainVars, handleVars>>

\* line 172 raises IOError/OSError (permission): lines 176-179
OpenForWriteError ==
    /\ pc = "open_w"
    /\ CanFail
    /\ Return(List(removed_comments_info), "open_w", disk, opens)
    /\ UNCHANGED <<predVars, mainVars, handleVars>>

\* lines 173-175: the text is written and the file closed
WriteAndClose ==
    /\ pc = "write"
    /\ Return(List(removed_comments_info), "none", Encode(cleaned_code, encoding), opens)
    /\ UNCHANGED <<predVars, mainVars, handleVars>>

\* the lengths at which a failing write may stop: nothing, or all but the last byte
StopLengths(n) == {0, n - 1} \cap 0..(n - 1)

\* line 173 or the close raises IOError/OSError (disk full, I/O error) after
\* only part of the bytes reached the file: lines 176-179
WriteError ==
    /\ pc = "write"
    /\ CanFail
    /\ LET data == Encode(cleaned_code, encoding)
       IN  \E k \in StopLengths(Len(data)) :
               Return(List(removed_comments_info), "write", Slice(data, 1, k), opens)
    /\ UNCHANGED <<predVars, mainVars, handleVars>>

(***************************************************************************)
(* is_preserved_comment applied to a text                                  *)
(***************************************************************************)
MaxPieces == 3

\* the pieces a comment text is made of
Pieces ==
    { PatShebang, PatEmacsCoding, PatCoding, PatType, PatNoqa,
      <<"#", " ", "C", "O", "D", "I", "N", "G", ":">>,
      <<"#", " ", "T", "Y", "P", "E", ":">>,
      <<"#", " ", "N", "o", "Q", "A">>,
      <<"#">>, <<" ">>, <<"x">> }

RECURSIVE Concat(_)
Concat(ss) == IF ss = << >> THEN << >> ELSE ss[1] \o Concat(Tail(ss))

Comments == { Concat(ps) : ps \in UNION {[1..n -> Pieces] : n \in 0..MaxPieces} }

Keywords == { <<"c", "o", "d", "i", "n", "g">>, <<"t", "y", "p", "e">>, <<"n", "o", "q", "a">> }

\* str.swapcase() on the letters of the model's alphabet
SwapCaseChar(c) ==
    CASE c = "c" -> "C" [] c = "o" -> "O" [] c = "d" -> "D" [] c = "i" -> "I"
      [] c = "n" -> "N" [] c = "g" -> "G" [] c = "t" -> "T" [] c = "y" -> "Y"
      [] c = "p" -> "P" [] c = "e" -> "E" [] c = "q" -> "Q" [] c = "a" -> "A"
      [] c = "x" -> "X"
      [] OTHER -> LowerChar(c)

\* text with the letter case changed in every occurrence of the keyword kw
\* (found whatever its case)
SwapCaseOf(text, kw) ==
    LET covered(i) ==
            \E j \in 1..Len(text) :
                /\ j <= i /\ i < j + Len(kw)
                /\ j + Len(kw) - 1 <= Len(text)
                /\ Lower(SubSeq(text, j, j + Len(kw) - 1)) = kw
    IN  [i \in 1..Len(text) |-> IF covered(i) THEN SwapCaseChar(text[i]) ELSE text[i]]

InitPred ==
    /\ comment \in Comments
    /\ keyword \in Keywords
    /\ preserved = << >>
    /\ InitFileIdle
    /\ InitMainIdle
    /\ InitHandlesIdle

\* is_preserved_comment is applied to the text, and to the text with the case
\* of the keyword changed
Classify ==
    /\ preserved = << >>
    /\ preserved' = << is_preserved_comment(comment),
                       is_preserved_comment(SwapCaseOf(comment, keyword)) >>
    /\ UNCHANGED <<comment, keyword>>
    /\ UNCHANGED <<fileVars, mainVars, handleVars>>

NextPred == Classify

SpecPred == InitPred /\ [][NextPred]_vars

Next ==
    \/ ReadFile
    \/ ReadFileIOError
    \/ ReadFileDecodeError
    \/ ReadFileSyntaxError
    \/ ReadFileTokenError
    \/ FilterTokens
    \/ Reassemble
    \/ ReassembleError
    \/ OpenForWrite
    \/ OpenForWriteError
    \/ WriteAndClose
    \/ WriteError

Spec == Init /\ [][Next]_vars

(***************************************************************************)
(* remove_hash_comments as one call, with no fault of the environment      *)
(* (rmcom.py lines 59-179): what it returns, and what it writes            *)
(***************************************************************************)
Outcome(ret, written, data) == [ret |-> ret, written |-> written, data |-> data]

\* lines 147-179: u is the result of untokenize
WriteOutcome(removed, enc, original, u) ==
    IF u.error \/ Normalize(u.text) = Normalize(original)
    THEN Outcome(List(removed), FALSE, << >>)
    ELSE Outcome(List(removed), TRUE, Encode(Normalize(u.text), enc))

\* lines 143-145, then the reassembly: f is the result of the filter loop
FilterOutcome(r, f) ==
    IF f.removed_comments_info = << >>
    THEN Outcome(List(<< >>), FALSE, << >>)
    ELSE WriteOutcome(f.removed_comments_info, r.encoding, r.text,
                      untokenize(f.kept_tokens))

\* lines 96-105 return None, or the tokens are filtered: r is the read stage
ReadOutcome(path, r) ==
    IF r.status # "ok"
    THEN Outcome(None, FALSE, << >>)
    ELSE FilterOutcome(r, FilterLoop(generate_tokens(r.text), 1, path, << >>, << >>))

remove_hash_comments(path, b) == ReadOutcome(path, ReadStage(b))

\* the bytes of the file after the call
BytesAfter(b, outcome) == IF outcome.written THEN outcome.data ELSE b

(***************************************************************************)
(* Inputs of main: a source tree, the arguments, the log path              *)
(***************************************************************************)
RootDir == <<"d">>
SubDir == <<"d", "/", "s">>

\* os.path.join(root, file_name)
Join(root, file_name) == root \o <<"/">> \o file_name

NamePy == <<"a", ".", "p", "y">>
NameUpperPy == <<"E", ".", "P", "Y">>
NamePyc == <<"a", ".", "p", "y", "c">>
NameSubPy == <<"e", ".", "p", "y">>

\* the names a directory may hold
NamesIn(dir) ==
    IF dir = RootDir THEN {NamePy, NameUpperPy, NamePyc}
    ELSE IF dir = SubDir THEN {NameSubPy}
    ELSE {}

Directories == {RootDir, SubDir}

SourcePaths == UNION { {Join(dir, n) : n \in NamesIn(dir)} : dir \in Directories }

\* a path at which nothing exists
MissingPath == <<"n">>

\* the bytes of the source files: one removable comment, no comment, not valid Python
SourceWithComment == <<"x", " ", "#", " ", "c", "\n">>
SourceWithoutComment == <<"x", "\n">>
SourceInvalid == <<"x", " ", "x", "\n">>
SourceContents == {SourceWithComment, SourceWithoutComment, SourceInvalid}

Trees ==
    { t \in [SourcePaths -> SourceContents \cup {Absent}] :
          t[Join(RootDir, NamePyc)] \in {SourceWithComment, Absent} }

Arguments ==
    { [mode |-> "file", target |-> Join(RootDir, NamePy)],
      [mode |-> "file", target |-> Join(RootDir, NameUpperPy)],
      [mode |-> "file", target |-> Join(RootDir, NamePyc)],
      [mode |-> "file", target |-> RootDir],
      [mode |-> "dir", target |-> RootDir],
      [mode |-> "dir", target |-> SubDir],
      [mode |-> "dir", target |-> Join(RootDir, NamePy)],
      [mode |-> "dir", target |-> MissingPath] }

\* the file at the log path: absent, or holding the records of a JSON list;
\* complete is FALSE for a file cut short by a failed write
LogFile(exists, complete, records) ==
    [exists |-> exists, complete |-> complete, records |-> records]
NoLog == LogFile(FALSE, FALSE, << >>)

\* the log left by an earlier run
StaleLog ==
    LogFile(TRUE, TRUE,
            <<CommentRemovalInfo(Join(RootDir, <<"o", ".", "p", "y">>), 1, <<"#", " ", "o">>)>>)

\* os.path.isfile, os.path.isdir
isfile(tree, path) == path \in SourcePaths /\ tree[path] # Absent
isdir(path) == path \in Directories

\* the test without lower()
EndsWithPy_case_sensitive(name) ==
    /\ Len(name) >= 3
    /\ SubSeq(name, Len(name) - 2, Len(name)) = <<".", "p", "y">>

\* name.lower().endswith(".py")
EndsWithPy(name) ==
    /\ Len(name) >= 3
    /\ SubSeq(Lower(name), Len(name) - 2, Len(name)) = <<".", "p", "y">>

\* os.walk(directory), top-down: the directories in the order they are listed
WalkOrder(directory) ==
    IF directory = RootDir THEN <<RootDir, SubDir>> ELSE <<directory>>

\* the file names that os.walk reports for a directory
FilesOf(tree, dir) == {n \in NamesIn(dir) : tree[Join(dir, n)] # Absent}

InitMain ==
    /\ argv \in Arguments
    /\ fs \in Trees
    /\ log_dir \in BOOLEAN
    /\ log \in IF log_dir THEN {NoLog, StaleLog} ELSE {NoLog}
    /\ main_pc = "start"
    /\ walk = << >>
    /\ pending = {}
    /\ all_removed_comments_info = << >>
    /\ processed_files_count = 0
    /\ failed_files_count = 0
    /\ all_removed_data = << >>
    /\ processing_failed = FALSE
    /\ output_successful = FALSE
    /\ history = << >>
    /\ InitFileIdle
    /\ InitPredIdle
    /\ InitHandlesIdle

(***************************************************************************)
(* main, process_directory and output_removed_comments, one action per     *)
(* step; history records the calls of remove_hash_comments and of          *)
(* output_removed_comments and the final message, in order                 *)
(***************************************************************************)
Event(op, path, records, ok, text) ==
    [op |-> op, path |-> path, records |-> records, ok |-> ok, text |-> text]

FinishedWithErrors == "Processing finished with errors."
FinishedSuccessfully == "Processing finished successfully."

\* lines 324-328 and 333-334: the log directory exists or is created
EnsureLogDirectory ==
    /\ main_pc = "start"
    /\ log_dir' = TRUE
    /\ main_pc' = "target"
    /\ UNCHANGED <<argv, fs, log, walk, pending, all_removed_comments_info,
                   processed_files_count, failed_files_count, all_removed_data,
                   processing_failed, output_successful, history>>
    /\ UNCHANGED <<fileVars, predVars, handleVars>>

\* lines 329-331: os.makedirs raises OSError and main returns
EnsureLogDirectoryError ==
    /\ main_pc = "start"
    /\ ~log_dir
    /\ main_pc' = "returned"
    /\ UNCHANGED <<argv, fs, log, log_dir, walk, pending, all_removed_comments_info,
                   processed_files_count, failed_files_count, all_removed_data,
                   processing_failed, output_successful, history>>
    /\ UNCHANGED <<fileVars, predVars, handleVars>>

\* lines 337-342 and 352-354: the target is rejected
ValidTarget ==
    IF argv.mode = "file"
    THEN isfile(fs, argv.target) /\ EndsWithPy(argv.target)
    ELSE isdir(argv.target)

\* the error printed at line 338, 341 or 353, after the path
TargetError ==
    IF argv.mode = "dir" THEN "is not a valid directory."
    ELSE IF ~isfile(fs, argv.target) THEN "is not a valid file."
    ELSE "is not a Python (.py) file."

InvalidTarget ==
    /\ main_pc = "target"
    /\ ~ValidTarget
    /\ history' = Append(history, Event("error", argv.target, << >>, FALSE, TargetError))
    /\ processing_failed' = TRUE
    /\ main_pc' = "log"
    /\ UNCHANGED <<argv, fs, log, log_dir, walk, pending, all_removed_comments_info,
                   processed_files_count, failed_files_count, all_removed_data,
                   output_successful>>
    /\ UNCHANGED <<fileVars, predVars, handleVars>>

\* lines 343-349, outcome being what remove_hash_comments(target_path) did
SingleFileDone(path, outcome) ==
    /\ fs' = [fs EXCEPT ![path] = BytesAfter(fs[path], outcome)]
    /\ history' = Append(history, Event("remove_hash_comments", path,
                                        outcome.ret.records, ~outcome.ret.is_none, ""))
    /\ processing_failed' = outcome.ret.is_none
    /\ all_removed_data' = IF outcome.ret.is_none THEN all_removed_data
                           ELSE all_removed_data \o outcome.ret.records

SingleFile ==
    /\ main_pc = "target"
    /\ argv.mode = "file"
    /\ ValidTarget
    /\ SingleFileDone(argv.target, remove_hash_comments(argv.target, fs[argv.target]))
    /\ main_pc' = "log"
    /\ UNCHANGED <<argv, log, log_dir, walk, pending, all_removed_comments_info,
                   processed_files_count, failed_files_count, output_successful>>
    /\ UNCHANGED <<fileVars, predVars, handleVars>>

\* lines 355-356 and 195-201: process_directory starts the walk
StartDirectory ==
    /\ main_pc = "target"
    /\ argv.mode = "dir"
    /\ ValidTarget
    /\ walk' = WalkOrder(argv.target)
    /\ pending' = {}
    /\ all_removed_comments_info' = << >>
    /\ processed_files_count' = 0
    /\ failed_files_count' = 0
    /\ main_pc' = "walk"
    /\ UNCHANGED <<argv, fs, log, log_dir, all_removed_data, processing_failed,
                   output_successful, history>>
    /\ UNCHANGED <<fileVars, predVars, handleVars>>

\* line 201: os.walk yields the next root and its file names; pending holds the
\* pairs of root and file_name still to come in the loop of line 202
ListDirectory ==
    /\ main_pc = "walk"
    /\ pending = {}
    /\ walk # << >>
    /\ pending' = {<<Head(walk), n>> : n \in FilesOf(fs, Head(walk))}
    /\ walk' = Tail(walk)
    /\ UNCHANGED <<argv, fs, log, log_dir, main_pc, all_removed_comments_info,
                   processed_files_count, failed_files_count, all_removed_data,
                   processing_failed, output_successful, history>>
    /\ UNCHANGED <<fileVars, predVars, handleVars>>

\* line 203 is false: the file name is passed over
SkipFile ==
    /\ main_pc = "walk"
    /\ \E f \in pending :
          /\ ~EndsWithPy(f[2])
          /\ pending' = pending \ {f}
    /\ UNCHANGED <<argv, fs, log, log_dir, main_pc, walk, all_removed_comments_info,
                   processed_files_count, failed_files_count, all_removed_data,
                   processing_failed, output_successful, history>>
    /\ UNCHANGED <<fileVars, predVars, handleVars>>

\* the loop body stops counting failures
ProcessFileDone_ignores_failure(path, outcome) ==
    /\ fs' = [fs EXCEPT ![path] = BytesAfter(fs[path], outcome)]
    /\ history' = Append(history, Event("remove_hash_comments", path,
                                        outcome.ret.records, ~outcome.ret.is_none, ""))
    /\ processed_files_count' = processed_files_count + 1
    /\ failed_files_count' = failed_files_count
    /\ all_removed_comments_info' =
           IF outcome.ret.is_none THEN all_removed_comments_info
           ELSE all_removed_comments_info \o outcome.ret.records

\* lines 204-218, outcome being what remove_hash_comments(file_path) did
ProcessFileDone(path, outcome) ==
    /\ fs' = [fs EXCEPT ![path] = BytesAfter(fs[path], outcome)]
    /\ history' = Append(history, Event("remove_hash_comments", path,
                                        outcome.ret.records, ~outcome.ret.is_none, ""))
    /\ processed_files_count' = processed_files_count + 1
    /\ failed_files_count' = IF outcome.ret.is_none THEN failed_files_count + 1
                             ELSE failed_files_count
    /\ all_removed_comments_info' =
           IF outcome.ret.is_none THEN all_removed_comments_info
           ELSE all_removed_comments_info \o outcome.ret.records

\* line 203 is true: the file is processed
ProcessFile ==
    /\ main_pc = "walk"
    /\ \E f \in pending :
          /\ EndsWithPy(f[2])
          /\ pending' = pending \ {f}
          /\ ProcessFileDone(Join(f[1], f[2]),
                             remove_hash_comments(Join(f[1], f[2]), fs[Join(f[1], f[2])]))
    /\ UNCHANGED <<argv, log, log_dir, main_pc, walk, all_removed_data,
                   processing_failed, output_successful>>
    /\ UNCHANGED <<fileVars, predVars, handleVars>>

\* lines 221-228 and 357-359: process_directory returns to main
DirectoryDone ==
    /\ main_pc = "walk"
    /\ pending = {}
    /\ walk = << >>
    /\ all_removed_data' = all_removed_data \o all_removed_comments_info
    /\ processing_failed' = (failed_files_count > 0)
    /\ main_pc' = "log"
    /\ UNCHANGED <<argv, fs, log, log_dir, walk, pending, all_removed_comments_info,
                   processed_files_count, failed_files_count, output_successful,
                   history>>
    /\ UNCHANGED <<fileVars, predVars, handleVars>>

\* line 258: comment.__dict__ of every record
Dict(c) ==
    [file_path |-> c.file_path, line_number |-> c.line_number,
     comment_text |-> c.comment_text]
LogData(removed_comments_data) ==
    [i \in 1..Len(removed_comments_data) |-> Dict(removed_comments_data[i])]

\* lines 364-366: output_removed_comments returned ok to main
OutputReturned(ok) ==
    /\ output_successful' = ok
    /\ processing_failed' = (processing_failed \/ ~ok)
    /\ history' = Append(history, Event("output_removed_comments", << >>,
                                        all_removed_data, ok, ""))
    /\ main_pc' = "finish"
    /\ UNCHANGED <<argv, fs, log_dir, walk, pending, all_removed_comments_info,
                   processed_files_count, failed_files_count, all_removed_data>>
    /\ UNCHANGED <<fileVars, predVars, handleVars>>

\* lines 242-247 and 250-254: nothing to log, an existing log is removed
OutputNothing ==
    /\ main_pc = "log"
    /\ all_removed_data = << >>
    /\ log' = NoLog
    /\ OutputReturned(TRUE)

\* lines 248-249: os.remove raises, the warning is printed
OutputNothingRemoveError ==
    /\ main_pc = "log"
    /\ all_removed_data = << >>
    /\ log.exists
    /\ log' = log
    /\ OutputReturned(TRUE)

\* the log written next to what the file already held
OutputLog_appends ==
    /\ main_pc = "log"
    /\ all_removed_data # << >>
    /\ log' = LogFile(TRUE, TRUE, log.records \o LogData(all_removed_data))
    /\ OutputReturned(TRUE)

\* lines 258-265: the records are dumped into the log
OutputLog ==
    /\ main_pc = "log"
    /\ all_removed_data # << >>
    /\ log' = LogFile(TRUE, TRUE, LogData(all_removed_data))
    /\ OutputReturned(TRUE)

\* the failure of open reported as a success
OutputLogOpenError_returns_true ==
    /\ main_pc = "log"
    /\ all_removed_data # << >>
    /\ log' = log
    /\ OutputReturned(TRUE)

\* line 261 raises: lines 266-268
OutputLogOpenError ==
    /\ main_pc = "log"
    /\ all_removed_data # << >>
    /\ log' = log
    /\ OutputReturned(FALSE)

\* line 263 raises after open(log_path, "w") emptied the file: lines 266-271
OutputLogWriteError ==
    /\ main_pc = "log"
    /\ all_removed_data # << >>
    /\ \E k \in 0..(Len(all_removed_data) - 1) :
          log' = LogFile(TRUE, FALSE, SubSeq(LogData(all_removed_data), 1, k))
    /\ OutputReturned(FALSE)

\* the final message chosen without looking at processing_failed
Finish_always_successful ==
    /\ main_pc = "finish"
    /\ history' = Append(history, Event("print", << >>, << >>, TRUE, FinishedSuccessfully))
    /\ main_pc' = "done"
    /\ UNCHANGED <<argv, fs, log, log_dir, walk, pending, all_removed_comments_info,
                   processed_files_count, failed_files_count, all_removed_data,
                   processing_failed, output_successful>>
    /\ UNCHANGED <<fileVars, predVars, handleVars>>

\* lines 369-374: the final message
Finish ==
    /\ main_pc = "finish"
    /\ history' = Append(history,
                         Event("print", << >>, << >>, TRUE,
                               IF processing_failed THEN FinishedWithErrors
                               ELSE FinishedSuccessfully))
    /\ main_pc' = "done"
    /\ UNCHANGED <<argv, fs, log, log_dir, walk, pending, all_removed_comments_info,
                   processed_files_count, failed_files_count, all_removed_data,
                   processing_failed, output_successful>>
    /\ UNCHANGED <<fileVars, predVars, handleVars>>

NextMain ==
    \/ EnsureLogDirectory
    \/ EnsureLogDirectoryError
    \/ InvalidTarget
    \/ SingleFile
    \/ StartDirectory
    \/ ListDirectory
    \/ SkipFile
    \/ ProcessFile
    \/ DirectoryDone
    \/ OutputNothing
    \/ OutputNothingRemoveError
    \/ OutputLog
    \/ OutputLogOpenError
    \/ OutputLogWriteError
    \/ Finish

SpecMain == InitMain /\ [][NextMain]_vars

(***************************************************************************)
(* The handles on source files: remove_hash_comments opens the file in two *)
(* with blocks (lines 79-106 and 172-173), and the callers call it for one *)
(* file after the other (lines 202-208, 344).  Contents are left out: each *)
(* branch of the code is a choice.                                         *)
(***************************************************************************)
Handle(path, mode) == [path |-> path, mode |-> mode]

Candidates == {Join(RootDir, NamePy), Join(RootDir, NameUpperPy), Join(SubDir, NameSubPy)}

\* the orders in which a batch can visit one, two or three candidate files
Batches ==
    { q \in UNION {[1..n -> Candidates] : n \in 1..Cardinality(Candidates)} :
          \A i, j \in DOMAIN q : q[i] = q[j] => i = j }

InitHandles ==
    /\ open_files = << >>
    /\ handle_pc = "next"
    /\ queue \in Batches
    /\ current = << >>
    /\ returned = << >>
    /\ InitFileIdle
    /\ InitPredIdle
    /\ InitMainIdle

\* the with block is left: its handle, the last one opened, is closed
Closed(handles) == SubSeq(handles, 1, Len(handles) - 1)

\* the call in progress returns outcome to its caller
CallReturns(outcome) ==
    /\ returned' = Append(returned, [path |-> current, outcome |-> outcome])
    /\ current' = << >>
    /\ handle_pc' = "next"

\* lines 202-208 (main: line 344): the caller calls remove_hash_comments
CallNext ==
    /\ handle_pc = "next"
    /\ queue # << >>
    /\ current' = Head(queue)
    /\ queue' = Tail(queue)
    /\ handle_pc' = "call"
    /\ UNCHANGED <<open_files, returned>>
    /\ UNCHANGED <<fileVars, predVars, mainVars>>

\* line 79: open(file_path, "rb")
OpenRead ==
    /\ handle_pc = "call"
    /\ open_files' = Append(open_files, Handle(current, "rb"))
    /\ handle_pc' = "reading"
    /\ UNCHANGED <<queue, current, returned>>
    /\ UNCHANGED <<fileVars, predVars, mainVars>>

\* line 79 raises: lines 113-115
OpenReadError ==
    /\ handle_pc = "call"
    /\ CallReturns("None")
    /\ UNCHANGED <<open_files, queue>>
    /\ UNCHANGED <<fileVars, predVars, mainVars>>

\* lines 96-98 and 103-105 return inside the with block, or a read raises
\* (lines 113-121): the block is left and None is returned
ReadBlockReturnsNone ==
    /\ handle_pc = "reading"
    /\ open_files' = Closed(open_files)
    /\ CallReturns("None")
    /\ UNCHANGED queue
    /\ UNCHANGED <<fileVars, predVars, mainVars>>

\* the with block of the read handle that never closes it
CloseRead_keeps_handle ==
    /\ handle_pc = "reading"
    /\ open_files' = open_files
    /\ handle_pc' = "filter"
    /\ UNCHANGED <<queue, current, returned>>
    /\ UNCHANGED <<fileVars, predVars, mainVars>>

\* line 106: the with block of the read handle ends
CloseRead ==
    /\ handle_pc = "reading"
    /\ open_files' = Closed(open_files)
    /\ handle_pc' = "filter"
    /\ UNCHANGED <<queue, current, returned>>
    /\ UNCHANGED <<fileVars, predVars, mainVars>>

\* lines 110-168: the call returns without opening the file for writing:
\* None (lines 116-121), or the list (lines 145, 161, 168)
ReturnWithoutWrite ==
    /\ handle_pc = "filter"
    /\ \E outcome \in {"None", "list, file not opened"} : CallReturns(outcome)
    /\ UNCHANGED <<open_files, queue>>
    /\ UNCHANGED <<fileVars, predVars, mainVars>>

\* line 172: open(file_path, "w")
OpenWrite ==
    /\ handle_pc = "filter"
    /\ open_files' = Append(open_files, Handle(current, "w"))
    /\ handle_pc' = "writing"
    /\ UNCHANGED <<queue, current, returned>>
    /\ UNCHANGED <<fileVars, predVars, mainVars>>

\* line 172 raises: lines 176-179
OpenWriteError ==
    /\ handle_pc = "filter"
    /\ CallReturns("list, open failed")
    /\ UNCHANGED <<open_files, queue>>
    /\ UNCHANGED <<fileVars, predVars, mainVars>>

\* lines 173-175: the text is written, the with block ends, the list is returned
WriteReturns ==
    /\ handle_pc = "writing"
    /\ open_files' = Closed(open_files)
    /\ CallReturns("list, file written")
    /\ UNCHANGED queue
    /\ UNCHANGED <<fileVars, predVars, mainVars>>

\* line 173 raises: the with block is left, lines 176-179 return the list
WriteRaises ==
    /\ handle_pc = "writing"
    /\ open_files' = Closed(open_files)
    /\ CallReturns("list, write failed")
    /\ UNCHANGED queue
    /\ UNCHANGED <<fileVars, predVars, mainVars>>

NextHandles ==
    \/ CallNext
    \/ OpenRead
    \/ OpenReadError
    \/ ReadBlockReturnsNone
    \/ CloseRead
    \/ ReturnWithoutWrite
    \/ OpenWrite
    \/ OpenWriteError
    \/ WriteReturns
    \/ WriteRaises

SpecHandles == InitHandles /\ [][NextHandles]_vars

(***************************************************************************)
(* Properties of remove_hash_comments (specification Spec)                 *)
(***************************************************************************)
Range(f) == {f[i] : i \in 1..Len(f)}

\* the comment tokens of a token list that is_preserved_comment does not keep
RemovableComments(toks) ==
    SelectSeq(toks, LAMBDA t : t.type = "COMMENT" /\ ~is_preserved_comment(t.string))

\* the call got past reading and tokenizing the file
Tokenized(c) == c.stage # "idle"

\* the call opened the file for writing
OpenedForWrite(c) == "w" \in Range(c.opens)

\* C1: a file with zero non-preserved comments (none at all, or only preserved
\* ones) makes remove_hash_comments return an empty list without any write:
\* the file is never opened for writing and its bytes are unchanged.
C1_NoRemovableCommentNoWrite ==
    /\ \A i \in 1..Len(calls) :
           (Tokenized(calls[i]) /\ RemovableComments(calls[i].tokens) = << >>)
               => /\ calls[i].ret = List(<< >>)
                  /\ ~OpenedForWrite(calls[i])
                  /\ calls[i].after = calls[i].before
    /\ (pc # "idle" /\ RemovableComments(tokens) = << >>)
           => (pc = "filter" /\ disk = before /\ "w" \notin Range(opens))

\* a finished call on a file whose only comment is a preserved one
C1_Witness ==
    \E i \in 1..Len(calls) :
        /\ Tokenized(calls[i])
        /\ RemovableComments(calls[i].tokens) = << >>
        /\ \E k \in 1..Len(calls[i].tokens) : calls[i].tokens[k].type = "COMMENT"
        /\ calls[i].ret = List(<< >>)

\* the calls made without a fault of the environment
FaultFree == \A i \in 1..Len(calls) : calls[i].fault = "none"

\* C2: two calls in a row on the same path: the second returns zero records
\* and leaves the file as the first left it.
C2_Idempotence ==
    (pc = "idle" /\ Len(calls) = 2 /\ FaultFree /\ ~calls[1].ret.is_none)
        => /\ calls[2].ret = List(<< >>)
           /\ calls[2].after = calls[1].after

\* C3: after a call the file holds either its original bytes or the complete
\* reconstructed text, on every path, a failed write included.
C3_AllOrNothing ==
    \A i \in 1..Len(calls) :
        \/ calls[i].after = calls[i].before
        \/ /\ OpenedForWrite(calls[i])
           /\ calls[i].after = Encode(calls[i].cleaned_code, calls[i].encoding)

\* C4: a write-layer error (at open or while writing) on a file with a
\* removable comment: the records are returned and the file is unchanged.
C4_WriteErrorKeepsFile ==
    \A i \in 1..Len(calls) :
        calls[i].fault \in {"open_w", "write"}
            => /\ ~calls[i].ret.is_none
               /\ calls[i].ret.records # << >>
               /\ calls[i].after = calls[i].before

\* C5: when untokenize fails on a file with n >= 1 removable comments the file
\* is never opened for writing, its bytes are unchanged and exactly the n
\* records are returned.
C5_UntokenizeErrorKeepsFile ==
    \A i \in 1..Len(calls) :
        calls[i].fault = "untokenize"
            => /\ ~OpenedForWrite(calls[i])
               /\ calls[i].after = calls[i].before
               /\ ~calls[i].ret.is_none
               /\ Len(calls[i].ret.records) = Len(RemovableComments(calls[i].tokens))
               /\ Len(calls[i].ret.records) >= 1

\* a call in which untokenize failed on a file with two removable comments
C5_Witness ==
    \E i \in 1..Len(calls) :
        /\ calls[i].fault = "untokenize"
        /\ Len(RemovableComments(calls[i].tokens)) = 2
        /\ Len(calls[i].ret.records) = 2

\* C6: a file that cannot be read, decoded, compiled or tokenized makes the
\* call return None; the file is never opened for writing and is unchanged.
C6_ReadFailureReturnsNone ==
    (pc = "idle" /\ calls # << >>) =>
        LET c == calls[Len(calls)]
        IN  (c.fault \in {"read", "tokenize"} \/ ReadStage(c.before).status # "ok")
                => /\ c.ret = None
                   /\ ~OpenedForWrite(c)
                   /\ c.after = c.before

\* a call on a file whose bytes are not valid in its encoding
C6_Witness ==
    \E i \in 1..Len(calls) :
        /\ ReadStage(calls[i].before).status = "UnicodeDecodeError"
        /\ calls[i].ret = None
        /\ calls[i].after = calls[i].before

\* the comment tokens of a call that start with "#!" after the first token of
\* the file and match no other preservation pattern
LateShebangs(c) ==
    SelectSeq(c.tokens,
              LAMBDA t : /\ t.type = "COMMENT"
                         /\ StartsWith(t.string, PatShebang)
                         /\ t.start # <<1, 0>>
                         /\ ~is_preserved_comment_no_shebang(t.string))

\* whether a record of the call names this token
Recorded(c, t) ==
    \E k \in 1..Len(c.ret.records) :
        /\ c.ret.records[k].line_number = t.start[1]
        /\ c.ret.records[k].comment_text = t.string

\* C8 as stated: a comment that starts with "#!" anywhere but at the very start
\* of the file is removed and recorded.
C8_LateShebangRemoved ==
    \A i \in 1..Len(calls) :
        (Tokenized(calls[i]) /\ ~calls[i].ret.is_none)
            => \A k \in 1..Len(LateShebangs(calls[i])) :
                   Recorded(calls[i], LateShebangs(calls[i])[k])

\* C8 amended: a comment that starts with "#!" is preserved wherever it stands:
\* it is never recorded, and a call that completes leaves it on its line of
\* the file.
C8_ShebangPreservedAnywhere ==
    \A i \in 1..Len(calls) :
        (Tokenized(calls[i]) /\ ~calls[i].ret.is_none)
            => \A k \in 1..Len(calls[i].tokens) :
                   LET t == calls[i].tokens[k]
                   IN  (t.type = "COMMENT" /\ StartsWith(t.string, PatShebang))
                           => /\ ~Recorded(calls[i], t)
                              /\ calls[i].fault = "none"
                                     => /\ Len(ReadLines(calls[i].after)) >= t.start[1]
                                        /\ Contains(ReadLines(calls[i].after)[t.start[1]],
                                                    t.string)

\* a call that rewrote a file holding a "#!" comment on its second line
C8_Witness ==
    \E i \in 1..Len(calls) :
        /\ LateShebangs(calls[i]) # << >>
        /\ calls[i].fault = "none"
        /\ OpenedForWrite(calls[i])
        /\ calls[i].ret.records # << >>
        /\ calls[i].after # calls[i].before

\* the records that the tokens of a call ask for: one per removable comment
\* token, in token order
ExpectedRecords(c) ==
    LET rem == RemovableComments(c.tokens)
    IN  [k \in 1..Len(rem) |->
            [file_path |-> c.file_path,
             line_number |-> rem[k].start[1],
             comment_text |-> rem[k].string]]

\* C10: for a file read and tokenized, the returned list holds exactly one
\* record per non-preserved comment token, in token order, with the path of
\* the call, the 1-indexed line on which the comment starts and its text.
C10_RecordsMatchRemovedComments ==
    (pc = "idle" /\ calls # << >>) =>
        LET c == calls[Len(calls)]
            lines == ReadLines(Decode(c.before, c.encoding))
        IN  Tokenized(c)
                => /\ c.ret = List(ExpectedRecords(c))
                   /\ \A k \in 1..Len(c.ret.records) :
                          LET r == c.ret.records[k]
                          IN  /\ r.file_path = c.file_path
                              /\ r.line_number \in 1..Len(lines)
                              /\ r.comment_text # << >>
                              /\ r.comment_text[1] = "#"
                              /\ r.comment_text[Len(r.comment_text)] # "\n"
                              /\ \E col \in 1..Len(lines[r.line_number]) :
                                     /\ RStripSet(Slice(lines[r.line_number], col,
                                                        Len(lines[r.line_number])),
                                                  {"\r", "\n"}) = r.comment_text
                                     /\ "#" \notin Range(Slice(lines[r.line_number], 1, col - 1))

\* a call on "b.py" that returned two records, for lines 1 and 2
C10_Witness ==
    /\ pc = "idle" /\ calls # << >>
    /\ file_path = "b.py"
    /\ Len(calls[1].ret.records) = 2
    /\ calls[1].ret.records[1].line_number = 1
    /\ calls[1].ret.records[2].line_number = 2
    /\ \E k \in 1..Len(calls[1].tokens) :
           /\ calls[1].tokens[k].type = "COMMENT"
           /\ is_preserved_comment(calls[1].tokens[k].string) = FALSE
           /\ calls[1].tokens[k].start[2] > 0

(***************************************************************************)
(* Properties of is_preserved_comment (specification SpecPred)             *)
(***************************************************************************)
\* pat stands in text at index i, letter case counted
OccursAt(text, pat, i) ==
    /\ i + Len(pat) - 1 <= Len(text)
    /\ \A j \in 1..Len(pat) : text[i + j - 1] = pat[j]

\* the lower-case pat stands in text at index i, letter case ignored
OccursAtAnyCase(text, pat, i) ==
    /\ i + Len(pat) - 1 <= Len(text)
    /\ \A j \in 1..Len(pat) : LowerChar(text[i + j - 1]) = pat[j]

MatchesShebang(text) == OccursAt(text, PatShebang, 1)

MatchesCoding(text) ==
    \E i \in 1..Len(text) :
        OccursAt(text, PatEmacsCoding, i) \/ OccursAt(text, PatCoding, i)

MatchesType(text) ==
    \E i \in 1..Len(text) :
        /\ \A j \in 1..(i - 1) : text[j] \in Whitespace
        /\ OccursAtAnyCase(text, PatType, i)

MatchesNoqa(text) == \E i \in 1..Len(text) : OccursAtAnyCase(text, PatNoqa, i)

\* C7: is_preserved_comment(text) is true if and only if text starts with "#!",
\* or contains "# -*- coding:" or "# coding:", or starts after leading
\* whitespace with "# type:" in any letter case, or contains "# noqa" in any
\* letter case.
C7_PreservedIffPattern ==
    preserved # << >>
        => preserved[1] = (\/ MatchesShebang(comment)
                           \/ MatchesCoding(comment)
                           \/ MatchesType(comment)
                           \/ MatchesNoqa(comment))

\* a text classified as preserved by the noqa pattern alone, in mixed case
C7_Witness ==
    /\ preserved # << >>
    /\ preserved[1]
    /\ MatchesNoqa(comment)
    /\ ~OccursAt(comment, PatNoqa, 1)
    /\ ~MatchesShebang(comment) /\ ~MatchesCoding(comment) /\ ~MatchesType(comment)

\* C9 as stated: changing the letter case of the keyword (coding, type, noqa)
\* in a comment never changes the result of is_preserved_comment.
C9_CaseInsensitiveKeywords ==
    preserved # << >> => preserved[1] = preserved[2]

\* C9 amended: changing the letter case of the keyword type or noqa never
\* changes the result; for the keyword coding the result changes exactly when
\* the change makes or breaks an exact "# coding:" or "# -*- coding:".
C9_CaseInsensitiveTypeNoqaOnly ==
    preserved # << >>
        => /\ keyword # <<"c", "o", "d", "i", "n", "g">>
                  => preserved[1] = preserved[2]
           /\ (keyword = <<"c", "o", "d", "i", "n", "g">> /\ preserved[1] # preserved[2])
                  => /\ MatchesCoding(comment) # MatchesCoding(SwapCaseOf(comment, keyword))
                     /\ ~MatchesShebang(comment)
                     /\ ~MatchesType(comment)
                     /\ ~MatchesNoqa(comment)

\* a comment with "# type:" whose keyword changes case: both forms are preserved
C9_Witness ==
    /\ preserved = <<TRUE, TRUE>>
    /\ keyword = <<"t", "y", "p", "e">>
    /\ MatchesType(comment)
    /\ SwapCaseOf(comment, keyword) # comment
    /\ ~MatchesShebang(comment) /\ ~MatchesCoding(comment) /\ ~MatchesNoqa(comment)

(***************************************************************************)
(* Properties of the rewritten file (specification Spec)                   *)
(***************************************************************************)
\* the call wrote the reconstructed text and closed the file
Rewrote(c) == c.fault = "none" /\ OpenedForWrite(c)

\* every line of the bytes ends with the terminator eol and no other
EveryLineEndsWith(b, eol) ==
    /\ b # << >>
    /\ \A k \in 1..Len(ReadLines(b)) :
           LET line == ReadLines(b)[k]
           IN  /\ Len(line) >= Len(eol)
               /\ SubSeq(line, Len(line) - Len(eol) + 1, Len(line)) = eol
               /\ eol = LF => (Len(line) = 1 \/ line[Len(line) - 1] # "\r")

\* C11: a rewritten file is written in the resolved encoding and keeps the
\* line-ending convention of the original: all CRLF stays CRLF, all LF stays LF.
C11_EncodingAndLineEndingsKept ==
    \A i \in 1..Len(calls) :
        Rewrote(calls[i])
            => /\ Decodable(calls[i].after, calls[i].encoding)
               /\ EveryLineEndsWith(calls[i].before, CRLF)
                      => EveryLineEndsWith(calls[i].after, CRLF)
               /\ EveryLineEndsWith(calls[i].before, LF)
                      => EveryLineEndsWith(calls[i].after, LF)

\* the scenario input: code with a comment, then a comment-only last line
ScenarioTrailingComment ==
    <<"x", " ", "#", " ", "c", "\n", "#", " ", "c", "\n">>

LinesBefore(c) == SplitLines(Decode(c.before, c.encoding))
LinesAfter(c) == SplitLines(Decode(c.after, c.encoding))

\* the records of the call for line n
RecordsOfLine(c, n) == SelectSeq(c.ret.records, LAMBDA r : r.line_number = n)

\* line with the comment text cut from its end and the whitespace before it
WithoutComment(line, text) == RStrip(SubSeq(line, 1, Len(line) - Len(text)))

\* C13: in a rewritten file no line is removed or moved: a line that held only
\* a removed comment is empty at the same line number, a line of code with a
\* removed comment keeps its code without the comment and the whitespace
\* before it, and every other line keeps its text.
C13_LinesKeepTheirNumbers ==
    (pc = "idle" /\ calls # << >> /\ Rewrote(calls[Len(calls)])) =>
        LET c == calls[Len(calls)]
        IN  /\ Len(LinesAfter(c)) = Len(LinesBefore(c))
            /\ \A n \in 1..Len(LinesBefore(c)) :
                   IF RecordsOfLine(c, n) = << >>
                   THEN LinesAfter(c)[n] = RStrip(LinesBefore(c)[n])
                   ELSE /\ Len(RecordsOfLine(c, n)) = 1
                        /\ LinesAfter(c)[n] =
                               WithoutComment(LinesBefore(c)[n],
                                              RecordsOfLine(c, n)[1].comment_text)

\* a rewrite of a file with a comment-only first line and a line of code with
\* a comment after it
C13_Witness ==
    /\ pc = "idle" /\ Len(calls) = 1 /\ Rewrote(calls[1])
    /\ Len(calls[1].ret.records) = 2
    /\ LinesAfter(calls[1])[1] = << >>
    /\ LinesAfter(calls[1])[2] # << >>
    /\ LinesAfter(calls[1])[2] # LinesBefore(calls[1])[2]

\* the text matches one of the preservation patterns
MatchesPattern(text) ==
    \/ MatchesShebang(text)
    \/ MatchesCoding(text)
    \/ MatchesType(text)
    \/ MatchesNoqa(text)

\* C14: in a rewritten file every comment that matches a preservation pattern
\* stands with unchanged text on its original line and has no record, and every
\* record is for a comment that matches no pattern.
C14_PreservedCommentsStay ==
    (pc = "idle" /\ calls # << >> /\ Rewrote(calls[Len(calls)])) =>
        LET c == calls[Len(calls)]
        IN  /\ \A k \in 1..Len(c.tokens) :
                   LET t == c.tokens[k]
                   IN  (t.type = "COMMENT" /\ MatchesPattern(t.string))
                           => /\ RecordsOfLine(c, t.start[1]) = << >>
                              /\ Len(LinesAfter(c)) >= t.start[1]
                              /\ LinesAfter(c)[t.start[1]] = RStrip(LinesBefore(c)[t.start[1]])
                              /\ OccursAt(LinesAfter(c)[t.start[1]], RStrip(t.string),
                                          t.start[2] + 1)
            /\ \A k \in 1..Len(c.ret.records) : ~MatchesPattern(c.ret.records[k].comment_text)

\* a rewrite of a file that holds a preserved comment and a removable one
C14_Witness ==
    /\ pc = "idle" /\ Len(calls) = 1 /\ Rewrote(calls[1])
    /\ Len(calls[1].ret.records) = 1
    /\ \E k \in 1..Len(calls[1].tokens) :
           /\ calls[1].tokens[k].type = "COMMENT"
           /\ MatchesPattern(calls[1].tokens[k].string)
           /\ calls[1].tokens[k].start[1] = 1
    /\ calls[1].ret.records[1].line_number = 2

(***************************************************************************)
(* Properties of process_directory (specification SpecMain)                *)
(***************************************************************************)
IsCall(e) == e.op = "remove_hash_comments"
IsOutput(e) == e.op = "output_removed_comments"
IsPrint(e) == e.op = "print"

\* the calls of remove_hash_comments so far, in order
Calls == SelectSeq(history, IsCall)

\* the number of calls that returned None
Failures(events) == Cardinality({i \in DOMAIN events : ~events[i].ok})

RECURSIVE ConcatRecords(_, _)
\* the record lists of the calls that did not fail, one after the other
ConcatRecords(events, i) ==
    IF i > Len(events) THEN << >>
    ELSE (IF events[i].ok THEN events[i].records ELSE << >>)
         \o ConcatRecords(events, i + 1)

\* the files that os.walk(directory) reports
FilesUnder(directory) ==
    UNION { {Join(WalkOrder(directory)[k], n) : n \in FilesOf(fs, WalkOrder(directory)[k])}
            : k \in DOMAIN WalkOrder(directory) }

InDirectory == argv.mode = "dir" /\ main_pc \in {"walk", "log", "finish", "done"}
DirectoryReturned == argv.mode = "dir" /\ isdir(argv.target)
                     /\ main_pc \in {"log", "finish", "done"}

\* C16: in process_directory the failure count is the number of calls that
\* returned None and the combined list is the concatenation of the lists
\* of the other calls, in call order; when it returns, every candidate
\* file was called exactly once, whatever failed before it
C16_FailureNeverAbortsBatch ==
    /\ InDirectory /\ isdir(argv.target) =>
          /\ failed_files_count = Failures(Calls)
          /\ all_removed_comments_info = ConcatRecords(Calls, 1)
          /\ processed_files_count = Len(Calls)
    /\ DirectoryReturned =>
          /\ {Calls[i].path : i \in DOMAIN Calls}
                 = {path \in FilesUnder(argv.target) : EndsWithPy(path)}
          /\ \A i, j \in DOMAIN Calls : Calls[i].path = Calls[j].path => i = j

\* three files processed, the second call failed, the other two gave records
C16_Witness ==
    /\ DirectoryReturned
    /\ Len(Calls) = 3
    /\ ~Calls[2].ok
    /\ Calls[1].records # << >> /\ Calls[3].records # << >>
    /\ failed_files_count = 1
    /\ Len(all_removed_comments_info) = 2

\* s ends with suffix
HasSuffix(s, suffix) ==
    /\ Len(s) >= Len(suffix)
    /\ SubSeq(s, Len(s) - Len(suffix) + 1, Len(s)) = suffix

DotPy == <<".", "p", "y">>

\* the paths on which remove_hash_comments was called
CalledPaths == {Calls[i].path : i \in DOMAIN Calls}

\* C17 as stated: process_directory calls remove_hash_comments on exactly
\* the files of the tree whose name ends in the characters '.py'
C17_ExactlyTheDotPyFiles ==
    DirectoryReturned =>
        CalledPaths = {path \in FilesUnder(argv.target) : HasSuffix(path, DotPy)}

\* C17: process_directory calls remove_hash_comments on exactly the files
\* of the tree, subdirectories included, whose name ends in '.py' in any
\* letter case, each exactly once, and on no other file; with no such file
\* it makes no call and returns an empty list and failure count 0
C17_ExactlyThePyFilesAnyCase ==
    /\ InDirectory =>
          \A i \in DOMAIN Calls :
              /\ Calls[i].path \in FilesUnder(argv.target)
              /\ HasSuffix(Lower(Calls[i].path), DotPy)
    /\ DirectoryReturned =>
          /\ CalledPaths = {path \in FilesUnder(argv.target) : HasSuffix(Lower(path), DotPy)}
          /\ Len(Calls) = Cardinality(CalledPaths)
          /\ {path \in FilesUnder(argv.target) : HasSuffix(Lower(path), DotPy)} = {} =>
                /\ Calls = << >>
                /\ all_removed_comments_info = << >>
                /\ failed_files_count = 0

\* the walk of a tree with a.py, E.PY, a.pyc and s/e.py has returned
C17_Witness ==
    /\ DirectoryReturned
    /\ argv.target = RootDir
    /\ fs[Join(RootDir, NamePyc)] # Absent
    /\ CalledPaths = {Join(RootDir, NamePy), Join(RootDir, NameUpperPy),
                      Join(SubDir, NameSubPy)}

(***************************************************************************)
(* Properties of output_removed_comments and main (specification SpecMain) *)
(***************************************************************************)
\* output_removed_comments has returned
OutputCalled == main_pc \in {"finish", "done"}

\* C18: after output_removed_comments was called with no record, no file
\* exists at the log path and the call returned True
C18_EmptyRecordsLeaveNoLog ==
    OutputCalled /\ all_removed_data = << >> =>
        /\ ~log.exists
        /\ output_successful

\* the last entry of history is the final message text
LastMessage == history[Len(history)].text

\* a file that json.load can read exists at the log path
ReadableLog == log.exists /\ log.complete

\* output_removed_comments was called with records and returned False
OutputFailed == OutputCalled /\ all_removed_data # << >> /\ ~output_successful

\* C19 as stated: when the write of a non-empty log fails, False is
\* returned, no readable log exists at the path, and main ends with
\* 'Processing finished with errors.'
C19_FailedWriteLeavesNoReadableLog ==
    OutputFailed =>
        /\ ~ReadableLog
        /\ processing_failed
        /\ main_pc = "done" => LastMessage = FinishedWithErrors

\* the step in which output_removed_comments runs and returns to main
OutputStep == main_pc = "log" /\ main_pc' = "finish"

\* the step in which main prints its final message
FinishStep == main_pc = "finish" /\ main_pc' = "done"

\* C19: when output_removed_comments is called with records and the log
\* does not end up holding them, it returns False to main, the file at the
\* log path is either as it was before the call (failure at open) or cut
\* short (failure while writing), and main ends with 'Processing finished
\* with errors.' whatever the files did
C19_FailedWriteReportedLogLeftAsItWas ==
    [][/\ (OutputStep /\ all_removed_data # << >>
              /\ log' # LogFile(TRUE, TRUE, LogData(all_removed_data))) =>
                 /\ ~output_successful'
                 /\ processing_failed'
                 /\ log' = log \/ ~log'.complete
       /\ (FinishStep /\ ~output_successful) =>
                 history' = Append(history, Event("print", << >>, << >>, TRUE,
                                                  FinishedWithErrors))]_vars

\* every file was processed without failure, open failed on an existing log
\* from an earlier run, and main ended with errors
C19_Witness ==
    /\ main_pc = "done"
    /\ OutputFailed
    /\ ValidTarget
    /\ Calls # << >>
    /\ \A i \in DOMAIN Calls : Calls[i].ok
    /\ log = StaleLog
    /\ LastMessage = FinishedWithErrors

\* the calls of output_removed_comments and the final messages so far
Outputs == SelectSeq(history, IsOutput)
Messages == SelectSeq(history, IsPrint)

AllFilesSucceeded == \A i \in DOMAIN Calls : Calls[i].ok

\* C20: main ends with 'Processing finished successfully.' exactly when the
\* target was valid, no call of remove_hash_comments returned None and
\* output_removed_comments returned True; when a file failed,
\* output_removed_comments was still called exactly once, after all files,
\* with the records of the files that did not fail, and main ends with
\* 'Processing finished with errors.'
C20_SuccessIffNothingFailed ==
    /\ main_pc # "done" => Messages = << >>
    /\ main_pc = "done" =>
          /\ Len(Messages) = 1
          /\ LastMessage \in {FinishedSuccessfully, FinishedWithErrors}
          /\ LastMessage = FinishedSuccessfully <=>
                 (ValidTarget /\ AllFilesSucceeded /\ output_successful)
          /\ ~AllFilesSucceeded =>
                 /\ Len(Outputs) = 1
                 /\ history[Len(history) - 1] =
                        Event("output_removed_comments", << >>,
                              ConcatRecords(Calls, 1), output_successful, "")
                 /\ LastMessage = FinishedWithErrors

\* a directory in which one file failed and another gave records: the log
\* was written with those records and main ended with errors
C20_Witness ==
    /\ main_pc = "done"
    /\ argv.mode = "dir"
    /\ ~AllFilesSucceeded
    /\ Len(Outputs) = 1
    /\ Outputs[1].records # << >>
    /\ output_successful
    /\ log = LogFile(TRUE, TRUE, LogData(Outputs[1].records))
    /\ LastMessage = FinishedWithErrors

IsError(e) == e.op = "error"

\* the errors that main printed about its target
Errors == SelectSeq(history, IsError)

\* C21: when the target is invalid, main calls remove_hash_comments on no
\* file and prints an error naming the path; once the log writer has
\* returned it was called exactly once, with no record, and no file exists
\* at the log path
C21_InvalidTargetProcessesNothing ==
    (~ValidTarget /\ main_pc \in {"log", "finish", "done"}) =>
        /\ Calls = << >>
        /\ Len(Errors) = 1
        /\ Errors[1].path = argv.target
        /\ OutputCalled =>
              /\ Len(Outputs) = 1
              /\ Outputs[1].records = << >>
              /\ ~log.exists

\* output_removed_comments returned True after writing records
LogWritten == OutputCalled /\ output_successful /\ all_removed_data # << >>

\* C22: in one run of main the log file changes in at most one step, the
\* call of output_removed_comments, which comes after every call of
\* remove_hash_comments and after the end of the walk; no source file
\* changes afterwards; after a successful write the log holds exactly the
\* records of this run's calls, in call order
C22_LogWrittenOnceAtTheEnd ==
    /\ [](/\ Len(Outputs) <= 1
          /\ \A i, j \in DOMAIN history :
                 (i < j /\ IsOutput(history[i])) => IsPrint(history[j])
          /\ OutputCalled => (walk = << >> /\ pending = {})
          /\ LogWritten => log = LogFile(TRUE, TRUE, LogData(ConcatRecords(Calls, 1))))
    /\ [][/\ log' # log => OutputStep
          /\ OutputCalled => (fs' = fs /\ log' = log)]_vars

\* two files gave one record each and the log holds both, in call order
C22_Witness ==
    /\ main_pc = "done"
    /\ LogWritten
    /\ Len(Calls) = 2
    /\ Calls[1].records # << >> /\ Calls[2].records # << >>
    /\ log.records = LogData(Calls[1].records \o Calls[2].records)

(***************************************************************************)
(* Properties of the written text and of the kept tokens (specification    *)
(* Spec)                                                                   *)
(***************************************************************************)
\* the text that a call wrote to the file
WrittenText(c) == Decode(c.after, c.encoding)

\* no line of the text, lines being ended by "\n", ends in whitespace
NoLineEndsInWhitespace(text) ==
    \A k \in 2..Len(text) :
        text[k] = "\n" => text[k - 1] \notin (Whitespace \ {"\n"})

EndsWithNewline(text) == text # << >> /\ text[Len(text)] = "\n"

Filtered == pc \in {"untokenize", "open_w", "write"}

\* the token is to be kept: not the encoding meta-token, and a comment only
\* when it matches a preservation pattern
IsKept(t) == t.type # "ENCODING" /\ (t.type = "COMMENT" => MatchesPattern(t.string))

EncodingTokens(toks) == SelectSeq(toks, LAMBDA t : t.type = "ENCODING")

\* C24: after the filter loop kept_tokens is the token sequence of the lexer
\* without the non-preserved comments and without the encoding meta-token,
\* every other token unchanged and in its place, and the kept tokens, the
\* records and the encoding meta-tokens add up to the tokens of the lexer
C24_KeptTokens ==
    Filtered =>
        /\ kept_tokens = SelectSeq(tokens, IsKept)
        /\ Len(kept_tokens) + Len(removed_comments_info)
               + Len(EncodingTokens(tokens)) = Len(tokens)

\* the filter kept a preserved comment and dropped another comment
C24_Witness ==
    /\ Filtered
    /\ Len(removed_comments_info) = 1
    /\ \E k \in 1..Len(kept_tokens) : kept_tokens[k].type = "COMMENT"
    /\ Len(kept_tokens) < Len(tokens)

(***************************************************************************)
(* Properties of the file handles (specification SpecHandles)              *)
(***************************************************************************)
\* C25: at most one source file is open at any point of a batch; while the
\* file is open for writing its read handle is closed; no handle is open
\* when a call has returned, whatever it returned, and so none is open when
\* the next file is started
C25_OneFileOpenAtATime ==
    /\ Len(open_files) <= 1
    /\ handle_pc = "reading" => open_files = <<Handle(current, "rb")>>
    /\ handle_pc = "writing" => open_files = <<Handle(current, "w")>>
    /\ handle_pc \in {"next", "call", "filter"} => open_files = << >>

\* the second file of a batch is open for writing after the write of the
\* first one failed
C25_Witness ==
    /\ handle_pc = "writing"
    /\ Len(returned) = 1
    /\ returned[1].outcome = "list, write failed"
    /\ open_files = <<Handle(current, "w")>>
    /\ current # returned[1].path

(***************************************************************************)
(* Properties of the encoding declaration (specification Spec)             *)
(***************************************************************************)
\* the line holds an encoding declaration that find_cookie accepts
HasDeclaration(line) == ~find_cookie(line).error /\ find_cookie(line).encoding # ""

\* the lines (1 or 2) on which detect_encoding found the declaration it used
DeclarationLines(b) ==
    { n \in 1..2 :
        /\ n <= Len(ReadLines(b))
        /\ HasDeclaration(ReadLines(b)[n])
        /\ n = 2 => /\ find_cookie(ReadLines(b)[1]) = [error |-> FALSE, encoding |-> ""]
                    /\ BlankLine(ReadLines(b)[1]) }

\* C26: when the encoding was resolved from a declaration on line 1 or 2, a
\* rewrite does not remove that comment, the written file resolves to the
\* encoding it was written in, and its bytes decode in that encoding
C26_DeclarationSurvivesRewrite ==
    \A i \in 1..Len(calls) :
        Rewrote(calls[i]) =>
            \A n \in DeclarationLines(calls[i].before) :
                /\ RecordsOfLine(calls[i], n) = << >>
                /\ ResolveEncoding(calls[i].after) = calls[i].encoding
                /\ Decodable(calls[i].after, ResolveEncoding(calls[i].after))

=============================================================================
